---- MODULE Spec2Model ----
(***************************************************************************)
(* Model of the carpooling match service (src/main.py).                    *)
(*                                                                         *)
(* One FastAPI process: the startup hook builds the Google Maps client,    *)
(* then POST /match/ requests are validated by pydantic and handled by     *)
(* match_passengers.  The passenger loop is modelled one iteration per     *)
(* step so that the loop invariants can be stated on every intermediate    *)
(* state.  A request that was answered with a result may be posted again;  *)
(* `previous` keeps the answer the same body got the time before.          *)
(*                                                                         *)
(* Values.  Python's None and the empty list are both the empty sequence   *)
(* <<>> (falsy); a coordinate is the non-empty tuple <<lat, lng>> (truthy).*)
(* Coordinates are whole kilometres on a local grid and every point of the *)
(* model lies on the meridian lng = 0, where the great-circle distance is  *)
(* the difference of the first components.                                 *)
(***************************************************************************)
EXTENDS Integers, Sequences, FiniteSets

VARIABLES
    API_KEY,          \* os.getenv("GOOGLE_MAPS_API_KEY") is set
    gmaps,            \* the module-level client: "None" or "Client"
    pc,               \* position of the server / of the handler
    request,          \* the request body being handled (<<>> before any)
    driver_route,     \* local of match_passengers
    seats_available,  \* local of match_passengers
    matched,          \* local of match_passengers
    unmatched,        \* local of match_passengers
    i,                \* number of passengers the for-loop has completed
    geocodeCalls,     \* addresses passed to geocode_address by this request
    proxCalls,        \* passengers (by position) given to is_passenger_match
    response,         \* the answer sent to the request (<<>> before it)
    previous          \* the answer the same body got the time before

vars == << API_KEY, gmaps, pc, request, driver_route, seats_available,
           matched, unmatched, i, geocodeCalls, proxCalls, response,
           previous >>

----------------------------------------------------------------------------
(* Bounds of the model *)

MaxPassengers == 3
NumUUIDs == 2

----------------------------------------------------------------------------
(* Values *)

None == <<>>

Abs(x) == IF x < 0 THEN -x ELSE x

Return(v) == [raised |-> FALSE, value |-> v]

Raise(e) == [raised |-> TRUE, value |-> e]

ApiError == [exc |-> "ApiError", status_code |-> 500,
             detail |-> "Internal Server Error"]

HTTPException(code, d) == [exc |-> "HTTPException", status_code |-> code,
                           detail |-> d]

----------------------------------------------------------------------------
(* The external providers, as fixed tables of what they answer *)

\* googlemaps.Client.geocode: a list of results, empty when nothing is
\* found; the client raises ApiError for a request the service refuses
\* (an empty address is INVALID_REQUEST).
gmaps_geocode(address) ==
    CASE address = "Oak Ave"  -> Return(<< <<2, 0>> >>)
      [] address = "Pine Rd"  -> Return(<< <<12, 0>> >>)
      [] address = "Main St"  -> Return(<< <<50, 0>> >>)
      [] address = "Nowhere"  -> Return(<<>>)
      [] OTHER                -> Raise(ApiError)

\* googlemaps.Client.directions followed by polyline.decode of the first
\* result: the decoded waypoints, or no result at all.
gmaps_directions(origin, destination) ==
    CASE origin = "Depot" /\ destination = "Airport"
            -> Return(<< << <<0, 0>>, <<10, 0>> >> >>)
      [] origin = "Depot" /\ destination = "Island"
            -> Return(<<>>)
      [] OTHER
            -> Raise(ApiError)

\* haversine(a, b) in km, for points of one meridian
haversine(a, b) == Abs(a[1] - b[1])

----------------------------------------------------------------------------
(* Requests *)

Location(a, c) == [address |-> a, coordinates |-> c]

Passenger(n, o, d) == [name |-> n, origin |-> o, destination |-> d]

PassengerPool ==
    { Passenger("B", Location("Oak Ave", None), Location("Main St", <<10, 0>>)),
      Passenger("B", Location("Main St", <<0, 0>>), Location("Main St", <<0, 0>>)),
      Passenger("C", Location("Nowhere", None), Location("Pine Rd", None)),
      Passenger("D", Location("Main St", <<0, 0>>), Location("Main St", <<3, 0>>)),
      Passenger("E", Location("", None), Location("Main St", <<0, 0>>)),
      Passenger("G", Location("Main St", <<0, 0>>), Location("Nowhere", None)),
      Passenger("H", Location("Nowhere", None), Location("", None)),
      Passenger("I", Location("Main St", <<3, 0>>), Location("Pine Rd", None)) }

RECURSIVE SeqsUpTo(_, _)
SeqsUpTo(S, n) ==
    IF n = 0 THEN { <<>> }
    ELSE LET shorter == SeqsUpTo(S, n - 1)
         IN  shorter \cup { Append(s, x) : s \in { t \in shorter : Len(t) = n - 1 },
                                           x \in S }

DriverPool ==
    { [origin |-> o, destination |-> d, seats_available |-> s] :
        o \in {"Depot"}, d \in {"Airport", "Island", ""},
        s \in {-1, 0, 1, 2} }

ToleranceChoices == {-1, 0, 2}

Requests ==
    [ driver : DriverPool,
      passengers : SeqsUpTo(PassengerPool, MaxPassengers),
      tolerance_km : ToleranceChoices ]

UUIDs == 1..NumUUIDs

----------------------------------------------------------------------------
(* The functions of main.py *)

\* Driver.seats_available: int = Field(gt=0)
DriverFieldsValid(driver) == driver.seats_available > 0

\* MatchRequest: the body passes validation
MatchRequestValid(req) == DriverFieldsValid(req.driver)

get_route_coords(origin, destination) ==
    IF gmaps = "None"
    THEN Raise(HTTPException(500, "Google Maps API not initialized"))
    ELSE LET directions == gmaps_directions(origin, destination)
         IN  IF directions.raised THEN directions
             ELSE IF directions.value = <<>> THEN Return(<<>>)
             ELSE Return(directions.value[1])

\* variant: the empty route is let through
RouteFound_Always(route) == TRUE

\* `if not driver_route: raise 404`
RouteFound(route) == route # <<>>

\* variant: the comparison is strict
RECURSIVE AnyNear_Strict(_, _, _)
AnyNear_Strict(route, c, tolerance_km) ==
    IF route = <<>> THEN FALSE
    ELSE IF haversine(c, Head(route)) < tolerance_km THEN TRUE
    ELSE AnyNear_Strict(Tail(route), c, tolerance_km)

\* any(haversine(c, point) <= tolerance_km for point in driver_route)
RECURSIVE AnyNear(_, _, _)
AnyNear(route, c, tolerance_km) ==
    IF route = <<>> THEN FALSE
    ELSE IF haversine(c, Head(route)) <= tolerance_km THEN TRUE
    ELSE AnyNear(Tail(route), c, tolerance_km)

is_passenger_match(route, passenger_origin, passenger_destination, tolerance_km) ==
    LET origin_near == AnyNear(route, passenger_origin, tolerance_km)
        dest_near == AnyNear(route, passenger_destination, tolerance_km)
    IN  origin_near /\ dest_near

geocode_address(address) ==
    IF gmaps = "None"
    THEN Raise(HTTPException(500, "Google Maps API not initialized"))
    ELSE LET result == gmaps_geocode(address)
         IN  IF result.raised THEN result
             ELSE IF result.value # <<>> THEN Return(result.value[1])
             ELSE Return(None)

\* `loc.coordinates if loc.coordinates else geocode_address(loc.address)`
ResolveCoords(loc) ==
    IF loc.coordinates # <<>> THEN Return(loc.coordinates)
    ELSE geocode_address(loc.address)

\* the addresses a resolution hands to geocode_address
ResolveCalls(loc) ==
    IF loc.coordinates # <<>> THEN <<>> ELSE << loc.address >>

\* variant: the last seat is never given away
SeatsExhausted_OffByOne(seats) == seats <= 1

\* variant: the seat check never fires
SeatsExhausted_Never(seats) == seats < 0

\* `if seats_available == 0`
SeatsExhausted(seats) == seats = 0

\* `if not origin_coords or not dest_coords`
GeocodingFailed(origin_coords, dest_coords) ==
    origin_coords = <<>> \/ dest_coords = <<>>

\* variant: the decrement is forgotten
SeatsAfterMatch_NoDecrement(seats) == seats

\* `seats_available -= 1`
SeatsAfterMatch(seats) == seats - 1

\* variant: the seat counter lives on between requests
InitialSeats_Carried(req) ==
    IF previous # <<>>
    THEN previous.seats_remaining
    ELSE req.driver.seats_available

\* `seats_available = request.driver.seats_available`
InitialSeats(req) == req.driver.seats_available

NoSeatsEntry(p) ==
    [name |-> p.name, origin_address |-> p.origin.address,
     destination_address |-> p.destination.address,
     reason |-> "No seats available"]

\* variant: the entry is built like the not-on-route one
GeocodeFailedEntry_WithCoords(p, origin_coords, dest_coords) ==
    [name |-> p.name, origin_address |-> p.origin.address,
     destination_address |-> p.destination.address,
     origin_coords |-> origin_coords, destination_coords |-> dest_coords,
     reason |-> "Could not geocode addresses"]

GeocodeFailedEntry(p, origin_coords, dest_coords) ==
    [name |-> p.name, origin_address |-> p.origin.address,
     destination_address |-> p.destination.address,
     reason |-> "Could not geocode addresses"]

MatchedEntry(p, origin_coords, dest_coords) ==
    [name |-> p.name, origin_address |-> p.origin.address,
     destination_address |-> p.destination.address,
     origin_coords |-> origin_coords, destination_coords |-> dest_coords]

NotOnRouteEntry(p, origin_coords, dest_coords) ==
    [name |-> p.name, origin_address |-> p.origin.address,
     destination_address |-> p.destination.address,
     origin_coords |-> origin_coords, destination_coords |-> dest_coords,
     reason |-> "Not on driver's route"]

\* variant: the list is replaced instead of extended
AppendUnmatched_Overwrite(list, entry) == << entry >>

\* unmatched.append(entry)
AppendUnmatched(list, entry) == Append(list, entry)

\* generate_map: the file name under static/, None without a route
generate_map(map_id, route, matches, unmatched_list) ==
    IF route = <<>> THEN None
    ELSE << "carpool_map_", map_id, ".html" >>

ErrorResponse(e) == [status |-> e.status_code, detail |-> e.detail]

ValidationErrorResponse == [status |-> 422, detail |-> "seats_available: greater than 0"]

----------------------------------------------------------------------------
(* The state machine *)

Init ==
    /\ API_KEY \in BOOLEAN
    /\ gmaps = "None"
    /\ pc = "boot"
    /\ request = <<>>
    /\ driver_route = <<>>
    /\ seats_available = 0
    /\ matched = <<>>
    /\ unmatched = <<>>
    /\ i = 0
    /\ geocodeCalls = <<>>
    /\ proxCalls = <<>>
    /\ response = <<>>
    /\ previous = <<>>

\* startup_event
Startup ==
    /\ pc = "boot"
    /\ gmaps' = IF API_KEY THEN "Client" ELSE "None"
    /\ pc' = "idle"
    /\ UNCHANGED << API_KEY, request, driver_route, seats_available, matched,
                    unmatched, i, geocodeCalls, proxCalls, response, previous >>

\* a first POST /match/ arrives
Receive ==
    /\ pc = "idle"
    /\ \E req \in Requests : request' = req
    /\ pc' = "validate"
    /\ UNCHANGED << API_KEY, gmaps, driver_route, seats_available, matched,
                    unmatched, i, geocodeCalls, proxCalls, response, previous >>

\* the same body is posted again after it was answered with a result
Replay ==
    /\ pc = "done"
    /\ previous' = response
    /\ response' = <<>>
    /\ pc' = "validate"
    /\ driver_route' = <<>>
    /\ seats_available' = 0
    /\ matched' = <<>>
    /\ unmatched' = <<>>
    /\ i' = 0
    /\ geocodeCalls' = <<>>
    /\ proxCalls' = <<>>
    /\ UNCHANGED << API_KEY, gmaps, request >>

\* pydantic validation of the body against MatchRequest
Validate ==
    /\ pc = "validate"
    /\ IF MatchRequestValid(request)
       THEN /\ pc' = "handler"
            /\ UNCHANGED response
       ELSE /\ pc' = "failed"
            /\ response' = ValidationErrorResponse
    /\ UNCHANGED << API_KEY, gmaps, request, driver_route, seats_available,
                    matched, unmatched, i, geocodeCalls, proxCalls, previous >>

\* match_passengers up to the for-loop
MatchStart ==
    /\ pc = "handler"
    /\ IF gmaps = "None"
       THEN /\ pc' = "failed"
            /\ response' = ErrorResponse(
                  HTTPException(500, "Google Maps API not initialized"))
            /\ UNCHANGED << driver_route, seats_available >>
       ELSE LET r == get_route_coords(request.driver.origin, request.driver.destination)
            IN  IF r.raised
                THEN /\ pc' = "failed"
                     /\ response' = ErrorResponse(r.value)
                     /\ UNCHANGED << driver_route, seats_available >>
                ELSE IF ~RouteFound(r.value)
                THEN /\ pc' = "failed"
                     /\ response' = ErrorResponse(
                           HTTPException(404, "Could not find a route for the driver"))
                     /\ driver_route' = r.value
                     /\ UNCHANGED seats_available
                ELSE /\ pc' = "loop"
                     /\ driver_route' = r.value
                     /\ seats_available' = InitialSeats(request)
                     /\ UNCHANGED response
    /\ matched' = <<>>
    /\ unmatched' = <<>>
    /\ UNCHANGED << API_KEY, gmaps, request, i, geocodeCalls, proxCalls, previous >>

\* one iteration of `for p in request.passengers`
ProcessPassenger ==
    /\ pc = "loop"
    /\ i < Len(request.passengers)
    /\ LET p == request.passengers[i + 1]
           o == ResolveCoords(p.origin)
           d == ResolveCoords(p.destination)
       IN  IF SeatsExhausted(seats_available)
           THEN /\ unmatched' = AppendUnmatched(unmatched, NoSeatsEntry(p))
                /\ i' = i + 1
                /\ UNCHANGED << pc, seats_available, matched, geocodeCalls,
                                proxCalls, response >>
           ELSE IF o.raised
           THEN /\ pc' = "failed"
                /\ geocodeCalls' = geocodeCalls \o ResolveCalls(p.origin)
                /\ response' = ErrorResponse(o.value)
                /\ UNCHANGED << seats_available, matched, unmatched, i, proxCalls >>
           ELSE IF d.raised
           THEN /\ pc' = "failed"
                /\ geocodeCalls' = geocodeCalls \o ResolveCalls(p.origin)
                                       \o ResolveCalls(p.destination)
                /\ response' = ErrorResponse(d.value)
                /\ UNCHANGED << seats_available, matched, unmatched, i, proxCalls >>
           ELSE /\ geocodeCalls' = geocodeCalls \o ResolveCalls(p.origin)
                                       \o ResolveCalls(p.destination)
                /\ i' = i + 1
                /\ UNCHANGED << pc, response >>
                /\ IF GeocodingFailed(o.value, d.value)
                   THEN /\ unmatched' = AppendUnmatched(unmatched,
                               GeocodeFailedEntry(p, o.value, d.value))
                        /\ UNCHANGED << seats_available, matched, proxCalls >>
                   ELSE /\ proxCalls' = Append(proxCalls, i + 1)
                        /\ IF is_passenger_match(driver_route, o.value, d.value,
                                                 request.tolerance_km)
                           THEN /\ matched' = Append(matched,
                                       MatchedEntry(p, o.value, d.value))
                                /\ seats_available' = SeatsAfterMatch(seats_available)
                                /\ UNCHANGED unmatched
                           ELSE /\ unmatched' = AppendUnmatched(unmatched,
                                       NotOnRouteEntry(p, o.value, d.value))
                                /\ UNCHANGED << seats_available, matched >>
    /\ UNCHANGED << API_KEY, gmaps, request, driver_route, previous >>

\* after the loop: uuid4, generate_map, the returned body
Finish ==
    /\ pc = "loop"
    /\ i = Len(request.passengers)
    /\ \E map_id \in UUIDs :
         LET map_file == generate_map(map_id, driver_route, matched, unmatched)
             map_url == IF map_file # <<>> THEN << "/static/" >> \o map_file ELSE None
         IN  response' = [status |-> 200,
                          matched_passengers |-> matched,
                          unmatched_passengers |-> unmatched,
                          seats_remaining |-> seats_available,
                          map_url |-> map_url]
    /\ pc' = "done"
    /\ UNCHANGED << API_KEY, gmaps, request, driver_route, seats_available,
                    matched, unmatched, i, geocodeCalls, proxCalls, previous >>

Next ==
    \/ Startup
    \/ Receive
    \/ Replay
    \/ Validate
    \/ MatchStart
    \/ ProcessPassenger
    \/ Finish

Spec == Init /\ [][Next]_vars

----------------------------------------------------------------------------
(* Vocabulary of the properties, stated on the request and the providers'   *)
(* answers rather than on the handler's helpers                             *)

Min(a, b) == IF a < b THEN a ELSE b

Range(s) == { s[n] : n \in 1..Len(s) }

HasRequest == pc \notin {"boot", "idle"}

\* the handler has initialised its locals (line 144-146 were executed)
LocalsInitialised ==
    \/ pc \in {"loop", "done"}
    \/ pc = "failed" /\ driver_route # <<>>

\* the endpoint comes with coordinates, or the provider finds the address
EndpointKnown(loc) ==
    \/ loc.coordinates # <<>>
    \/ /\ ~gmaps_geocode(loc.address).raised
       /\ gmaps_geocode(loc.address).value # <<>>

\* the endpoint has no coordinates and the provider finds nothing
EndpointAbsent(loc) ==
    /\ loc.coordinates = <<>>
    /\ ~gmaps_geocode(loc.address).raised
    /\ gmaps_geocode(loc.address).value = <<>>

CoordOf(loc) ==
    IF loc.coordinates # <<>> THEN loc.coordinates
    ELSE gmaps_geocode(loc.address).value[1]

NearRoute(c) ==
    \E w \in 1..Len(driver_route) :
        haversine(c, driver_route[w]) <= request.tolerance_km

\* both endpoints resolve and pass the proximity test
Fits(p) ==
    /\ EndpointKnown(p.origin)
    /\ EndpointKnown(p.destination)
    /\ NearRoute(CoordOf(p.origin))
    /\ NearRoute(CoordOf(p.destination))

Echo(p) ==
    [name |-> p.name, origin_address |-> p.origin.address,
     destination_address |-> p.destination.address]

EchoOf(e) ==
    [name |-> e.name, origin_address |-> e.origin_address,
     destination_address |-> e.destination_address]

IsNoSeats(e, p) ==
    e = [name |-> p.name, origin_address |-> p.origin.address,
         destination_address |-> p.destination.address,
         reason |-> "No seats available"]

IsGeocodingFailed(e, p) ==
    e = [name |-> p.name, origin_address |-> p.origin.address,
         destination_address |-> p.destination.address,
         reason |-> "Could not geocode addresses"]

IsNotOnRoute(e, p) ==
    e = [name |-> p.name, origin_address |-> p.origin.address,
         destination_address |-> p.destination.address,
         origin_coords |-> CoordOf(p.origin),
         destination_coords |-> CoordOf(p.destination),
         reason |-> "Not on driver's route"]

IsMatched(e, p) ==
    e = [name |-> p.name, origin_address |-> p.origin.address,
         destination_address |-> p.destination.address,
         origin_coords |-> CoordOf(p.origin),
         destination_coords |-> CoordOf(p.destination)]

\* the loop is about to process the next passenger
AtPassenger == pc = "loop" /\ i < Len(request.passengers)

NextPassenger == request.passengers[i + 1]

----------------------------------------------------------------------------
(* C1 *)

FitProcessed == { j \in 1..i : Fits(request.passengers[j]) }

FitRank(j) == Cardinality({ m \in FitProcessed : m < j })

\* C1: greedy-order fairness.  With seat budget k, among the passengers
\* processed so far whose two endpoints both resolve and pass the proximity
\* test, exactly the first k in input order are matched (in that order, and
\* nobody else is), and each later one is unmatched with reason
\* 'No seats available'; the returned body holds exactly these lists.
C1_GreedyOrder ==
    LocalsInitialised =>
        LET k == request.driver.seats_available
        IN  /\ Len(matched) = Min(k, Cardinality(FitProcessed))
            /\ \A j \in FitProcessed :
                 IF FitRank(j) < k
                 THEN /\ FitRank(j) + 1 \in 1..Len(matched)
                      /\ IsMatched(matched[FitRank(j) + 1], request.passengers[j])
                 ELSE /\ j - k \in 1..Len(unmatched)
                      /\ IsNoSeats(unmatched[j - k], request.passengers[j])
            /\ pc = "done" =>
                 /\ i = Len(request.passengers)
                 /\ response.matched_passengers = matched
                 /\ response.unmatched_passengers = unmatched

\* a returned request with more fitting passengers than seats
C1_Witness ==
    /\ pc = "done"
    /\ request.driver.seats_available = 2
    /\ Cardinality(FitProcessed) > 2
    /\ Len(response.matched_passengers) = 2

----------------------------------------------------------------------------
(* C2 *)

\* C2: seat accounting.  After every processed passenger, and in the
\* returned body, the seat counter equals the request's seats_available
\* minus the number of matched passengers, and it is never negative.
C2_SeatAccounting ==
    /\ LocalsInitialised =>
         /\ seats_available = request.driver.seats_available - Len(matched)
         /\ seats_available >= 0
    /\ pc = "done" =>
         /\ response.seats_remaining =
               request.driver.seats_available - Len(response.matched_passengers)
         /\ response.seats_remaining >= 0

\* a returned request that used up its two seats
C2_Witness ==
    /\ pc = "done"
    /\ Len(response.matched_passengers) = 2
    /\ response.seats_remaining = 0
    /\ Len(response.unmatched_passengers) >= 1

----------------------------------------------------------------------------
(* C3 *)

\* the echoes of the first n passengers that f sends to side b, in order
RECURSIVE Side(_, _, _)
Side(f, b, n) ==
    IF n = 0 THEN <<>>
    ELSE IF f[n] = b
         THEN Append(Side(f, b, n - 1), Echo(request.passengers[n]))
         ELSE Side(f, b, n - 1)

Echoes(list) == [ n \in 1..Len(list) |-> EchoOf(list[n]) ]

\* C3: exhaustive classification.  The two lists together always hold
\* exactly the passengers processed so far, each in exactly one list and in
\* input order, so the lengths add up to the number processed; a returned
\* body classifies every passenger of the request.
C3_ExhaustiveClassification ==
    /\ LocalsInitialised =>
         /\ Len(matched) + Len(unmatched) = i
         /\ \E f \in [1..i -> BOOLEAN] :
              /\ Echoes(matched) = Side(f, TRUE, i)
              /\ Echoes(unmatched) = Side(f, FALSE, i)
    /\ pc = "done" =>
         /\ Len(response.matched_passengers)
              + Len(response.unmatched_passengers) = Len(request.passengers)
         /\ response.matched_passengers = matched
         /\ response.unmatched_passengers = unmatched

\* a returned body with passengers on both sides
C3_Witness ==
    /\ pc = "done"
    /\ Len(request.passengers) >= 3
    /\ Len(response.matched_passengers) >= 1
    /\ Len(response.unmatched_passengers) >= 2

----------------------------------------------------------------------------
(* C4 *)

\* C4: seat exhaustion short-circuits.  When the seat counter is 0 at the
\* start of a passenger, that passenger goes to unmatched with reason
\* 'No seats available' and neither geocode_address nor is_passenger_match
\* is called for it.
C4_SeatExhaustionShortCircuits ==
    [][ (AtPassenger /\ seats_available = 0) =>
          /\ unmatched' = Append(unmatched, [name |-> NextPassenger.name,
                 origin_address |-> NextPassenger.origin.address,
                 destination_address |-> NextPassenger.destination.address,
                 reason |-> "No seats available"])
          /\ matched' = matched
          /\ seats_available' = 0
          /\ geocodeCalls' = geocodeCalls
          /\ proxCalls' = proxCalls
          /\ i' = i + 1
          /\ pc' = "loop" ]_vars

\* a passenger that would have matched, and whose address needed the
\* geocoder, was turned away without any lookup
C4_Witness ==
    /\ pc = "done"
    /\ \E j \in 1..Len(request.passengers) :
         LET p == request.passengers[j]
         IN  /\ Fits(p)
             /\ p.origin.coordinates = <<>>
             /\ p.origin.address \notin Range(geocodeCalls)
             /\ j \notin Range(proxCalls)
             /\ \E n \in 1..Len(unmatched) : IsNoSeats(unmatched[n], p)

----------------------------------------------------------------------------
(* C5 *)

\* C5: a geocoding failure of one passenger never aborts the request: once
\* the route is resolved and the passengers are being processed, the
\* request does not end in an error.
C5_GeocodingNeverAborts ==
    LocalsInitialised => pc # "failed"

----------------------------------------------------------------------------
(* C6 *)

\* C6: a request with non-positive tolerance or negative seat budget is
\* rejected before matching begins: it never reaches the handler's route
\* resolution or passenger loop and is never answered with a result.
C6_InvalidConfigurationRejected ==
    (HasRequest /\ (request.tolerance_km <= 0 \/ request.driver.seats_available < 0))
        => /\ pc \in {"validate", "failed"}
           /\ i = 0
           /\ matched = <<>>
           /\ unmatched = <<>>
           /\ response # <<>> => response.status = 422

----------------------------------------------------------------------------
(* C7 *)

EmptyRouteRequest ==
    /\ HasRequest
    /\ ~gmaps_directions(request.driver.origin, request.driver.destination).raised
    /\ gmaps_directions(request.driver.origin, request.driver.destination).value = <<>>

\* C7: empty-route precondition.  When the route provider finds no route,
\* the handler ends with the 404 before any passenger is processed: no
\* geocoding call, no proximity test, no classification, never a result;
\* and in every request, passenger processing starts only after the route
\* was resolved.
C7_EmptyRoutePrecondition ==
    /\ EmptyRouteRequest =>
         /\ pc \notin {"loop", "done"}
         /\ i = 0
         /\ matched = <<>>
         /\ unmatched = <<>>
         /\ geocodeCalls = <<>>
         /\ proxCalls = <<>>
         /\ seats_available = 0
         /\ response # <<>> => response.status # 200
         /\ (pc = "failed" /\ gmaps = "Client" /\ request.driver.seats_available > 0)
               => response.status = 404
    /\ (HasRequest /\ (i > 0 \/ geocodeCalls # <<>> \/ proxCalls # <<>>
                        \/ matched # <<>> \/ unmatched # <<>>))
         => driver_route # <<>>

\* the 404 was sent for a request that carries passengers
C7_Witness ==
    /\ pc = "failed"
    /\ EmptyRouteRequest
    /\ response.status = 404
    /\ Len(request.passengers) >= 2
    /\ request.tolerance_km = 2

----------------------------------------------------------------------------
(* C8 *)

\* the next passenger has an endpoint the resolver reports absent, the
\* other endpoint being known or absent as well
AbsentEndpointCase(p) ==
    /\ EndpointAbsent(p.origin) \/ EndpointAbsent(p.destination)
    /\ EndpointAbsent(p.origin) \/ EndpointKnown(p.origin)
    /\ EndpointAbsent(p.destination) \/ EndpointKnown(p.destination)

----------------------------------------------------------------------------
(* C9 *)

\* C9: proximity test.  With seats left and both endpoints resolved, the
\* passenger is matched iff some waypoint is within tolerance (inclusive)
\* of the origin and some waypoint, possibly another one, is within
\* tolerance of the destination; otherwise it is unmatched with reason
\* 'Not on driver's route', carrying both coordinates.
C9_ProximityTest ==
    [][ (AtPassenger /\ seats_available > 0
           /\ EndpointKnown(NextPassenger.origin)
           /\ EndpointKnown(NextPassenger.destination)) =>
          IF /\ \E w \in 1..Len(driver_route) :
                  haversine(CoordOf(NextPassenger.origin), driver_route[w])
                      <= request.tolerance_km
             /\ \E w \in 1..Len(driver_route) :
                  haversine(CoordOf(NextPassenger.destination), driver_route[w])
                      <= request.tolerance_km
          THEN /\ Len(matched') = Len(matched) + 1
               /\ IsMatched(matched'[Len(matched')], NextPassenger)
               /\ unmatched' = unmatched
               /\ seats_available' = seats_available - 1
          ELSE /\ Len(unmatched') = Len(unmatched) + 1
               /\ IsNotOnRoute(unmatched'[Len(unmatched')], NextPassenger)
               /\ matched' = matched
               /\ seats_available' = seats_available ]_vars

\* a matched passenger whose origin is exactly at the tolerance from its
\* nearest waypoint and whose endpoints are near different waypoints
C9_Witness ==
    /\ LocalsInitialised
    /\ request.tolerance_km > 0
    /\ \E n \in 1..Len(matched) :
         /\ \A w \in 1..Len(driver_route) :
               haversine(matched[n].origin_coords, driver_route[w])
                   >= request.tolerance_km
         /\ \E w \in 1..Len(driver_route) :
               haversine(matched[n].origin_coords, driver_route[w])
                   = request.tolerance_km
         /\ ~ \E w \in 1..Len(driver_route) :
               /\ haversine(matched[n].origin_coords, driver_route[w])
                     <= request.tolerance_km
               /\ haversine(matched[n].destination_coords, driver_route[w])
                     <= request.tolerance_km

----------------------------------------------------------------------------
(* C10 *)

\* C10 as stated: two invocations of the same request, with the same
\* provider answers, are answered with identical responses.
C10_IdenticalResponses ==
    (previous # <<>> /\ response # <<>>) => response = previous

\* what a response says about the matching, the map reference left out
Outcome(r) ==
    IF r.status = 200
    THEN << r.status, r.matched_passengers, r.unmatched_passengers,
            r.seats_remaining >>
    ELSE << r.status, r.detail >>

\* C10 (amended): two invocations of the same request, with the same
\* provider answers, return the same matched list, the same unmatched list
\* and the same seats_remaining (or the same error).
C10_IdenticalOutcomes ==
    (previous # <<>> /\ response # <<>>) => Outcome(response) = Outcome(previous)

\* the same request was answered twice with a result, seats were taken,
\* and the two map references differ
C10_Witness ==
    /\ previous # <<>>
    /\ pc = "done"
    /\ previous.status = 200
    /\ response.status = 200
    /\ response.matched_passengers # <<>>
    /\ response.unmatched_passengers # <<>>
    /\ response.map_url # previous.map_url

====
